---------------------------- MODULE Spec2Model ----------------------------
(***************************************************************************)
(* CRSF frame decoder of expresslrs_tester (src/crsf_receiver.py).         *)
(*                                                                         *)
(* The decoder object is the record `self` (buffer, channels, the seven    *)
(* link-statistics fields, frame_count, error_count).  The serial line is  *)
(* the byte sequence `stream`, of which `sent` bytes have been delivered   *)
(* to the decoder so far.  One action, ReadFrame, is one call of           *)
(* CRSFReceiver.read_frame on an open port: it reads the bytes that are    *)
(* waiting on the serial line (any number of the bytes not yet delivered), *)
(* appends them to the buffer, runs the synchronisation loop and parses    *)
(* at most one frame.  `ret` is the value the call returned; `skipped` and *)
(* `extracted` record what the call did (number of leading bytes it        *)
(* discarded, frame it removed from the buffer); `split` records that the  *)
(* input delivered so far came in more than one read.  Nothing reads them. *)
(***************************************************************************)
EXTENDS Integers, Sequences, FiniteSets

VARIABLES self, stream, sent, ret, skipped, extracted, split

vars == <<self, stream, sent, ret, skipped, extracted, split>>

(***************************************************************************)
(* Bounds of the model.                                                    *)
(***************************************************************************)
MaxSegs == 2
MaxLen == 40
MaxNoise == 6
MaxDeclared == 65
MaxFlipDeclared == 13

(***************************************************************************)
(* Program constants.                                                      *)
(***************************************************************************)
CRSF_MAX_PACKET_SIZE == 64
LINK_STATISTICS == 20
RC_CHANNELS_PACKED == 22
GPS == 2

\* class CRSFAddress: the values of the enumeration (0xC8 is listed twice,
\* as USB and as FLIGHT_CONTROLLER).
CRSFAddress ==
    {0, 200, 128, 138, 192, 194, 196, 200, 202, 204, 234, 236, 238}

(***************************************************************************)
(* Bit operations on naturals.                                             *)
(***************************************************************************)
RECURSIVE xor(_, _)
xor(a, b) ==
    IF a = 0 THEN b
    ELSE IF b = 0 THEN a
    ELSE (((a % 2) + (b % 2)) % 2) + (2 * xor(a \div 2, b \div 2))

RECURSIVE pow2(_)
pow2(n) == IF n = 0 THEN 1 ELSE 2 * pow2(n - 1)

\* Python slice s[a:b] for 0 <= a, with b already resolved to an index.
slice(s, a, b) == IF b <= a THEN << >> ELSE SubSeq(s, a + 1, b)

(***************************************************************************)
(* _calculate_crc: CRC8 with polynomial 0xD5.  The accumulator is masked   *)
(* to 8 bits once per byte, after the eight shifts, as in the code.        *)
(***************************************************************************)
\* The shift without the polynomial.
crc_shift_once_plain(crc) == crc * 2

crc_shift_once(crc) ==
    IF (crc \div 128) % 2 = 1 THEN xor(crc * 2, 213) ELSE crc * 2

RECURSIVE crc_shift(_, _)
crc_shift(crc, n) ==
    IF n = 0 THEN crc ELSE crc_shift(crc_shift_once(crc), n - 1)

\* The eight shifts and the mask (crc &= 0xFF), for every value the accumulator
\* can hold after crc ^= byte.
crc_pass == [x \in 0..255 |-> crc_shift(x, 8) % 256]

\* One pass of the outer loop: crc ^= byte, eight shifts, crc &= 0xFF, for
\* every accumulator and every byte.
crc_next == [c \in 0..255 |-> [b \in 0..255 |-> crc_pass[xor(c, b)]]]

crc_step(crc, byte) == crc_next[crc][byte]

\* The outer loop, from byte i of the data on.  The accumulator of a pass is
\* a value (bound as c) before the next pass starts.
RECURSIVE crc_from(_, _, _)
crc_from(crc, data, i) ==
    IF i > Len(data) THEN crc
    ELSE CHOOSE r \in { crc_from(c, data, i + 1) :
                          c \in {crc_step(crc, data[i])} } : TRUE

calculate_crc(data) == crc_from(0, data, 1)

(***************************************************************************)
(* The decoder object after __init__.                                      *)
(***************************************************************************)
init_self ==
    [buffer |-> << >>,
     channels |-> [i \in 1..16 |-> 0],
     rssi_1 |-> 0, rssi_2 |-> 0, link_quality |-> 0, snr |-> 0,
     active_antenna |-> 0, rf_mode |-> 0, tx_power |-> 0,
     frame_count |-> 0, error_count |-> 0]

(***************************************************************************)
(* _parse_rc_channels.  The code reads payload[:22] as one little-endian   *)
(* integer and takes bits 11*i .. 11*i+10 of it; the 176-bit integer is    *)
(* read here through the three bytes that hold those bits.                 *)
(***************************************************************************)
payload_byte(payload, j) == IF j < 22 THEN payload[j + 1] ELSE 0

\* Channels taken as 10-bit fields of the 11-bit slots.
channel_bits_10(payload, i) ==
    LET b == (i * 11) \div 8
        s == (i * 11) % 8
        w == payload_byte(payload, b) + (256 * payload_byte(payload, b + 1))
               + (65536 * payload_byte(payload, b + 2))
    IN  (w \div pow2(s)) % 1024

\* Channels masked to 12 bits.
channel_bits_12(payload, i) ==
    LET b == (i * 11) \div 8
        s == (i * 11) % 8
        w == payload_byte(payload, b) + (256 * payload_byte(payload, b + 1))
               + (65536 * payload_byte(payload, b + 2))
    IN  (w \div pow2(s)) % 4096

channel_bits(payload, i) ==
    LET b == (i * 11) \div 8
        s == (i * 11) % 8
        w == payload_byte(payload, b) + (256 * payload_byte(payload, b + 1))
               + (65536 * payload_byte(payload, b + 2))
    IN  (w \div pow2(s)) % 2048

\* Channels smoothed: the mean of the value held and the value received.
parse_rc_channels_smoothed(d, payload) ==
    IF Len(payload) < 22 THEN d
    ELSE [d EXCEPT !.channels =
            [i \in 1..16 |->
                (d.channels[i] + channel_bits(payload, i - 1)) \div 2]]

parse_rc_channels(d, payload) ==
    IF Len(payload) < 22 THEN d
    ELSE [d EXCEPT !.channels = [i \in 1..16 |-> channel_bits(payload, i - 1)]]

(***************************************************************************)
(* _parse_link_statistics.  struct.unpack('b', ...) reads a byte as a      *)
(* signed 8-bit value.                                                     *)
(***************************************************************************)
\* The SNR byte read as unsigned.
unpack_unsigned(byte) == byte

unpack_b(byte) == IF byte >= 128 THEN byte - 256 ELSE byte

\* The length guard set to the seven bytes that are read.
link_payload_short_7(payload) == Len(payload) < 7

link_payload_short(payload) == Len(payload) < 10

parse_link_statistics(d, payload) ==
    IF link_payload_short(payload) THEN d
    ELSE [d EXCEPT !.rssi_1 = payload[1],
                   !.rssi_2 = payload[2],
                   !.link_quality = payload[3],
                   !.snr = unpack_b(payload[4]),
                   !.active_antenna = payload[5],
                   !.rf_mode = payload[6],
                   !.tx_power = payload[7]]

(***************************************************************************)
(* _parse_frame.                                                           *)
(***************************************************************************)
frame_payload(frame) == slice(frame, 3, Len(frame) - 1)

\* A frame accepted without comparing its CRC byte.
frame_crc_unchecked(frame) == TRUE

frame_crc_ok(frame) ==
    frame[Len(frame)] = calculate_crc(slice(frame, 2, Len(frame) - 1))

\* A CRC mismatch that also forgets the last link statistics.
on_crc_error_resets(d) ==
    [d EXCEPT !.error_count = @ + 1, !.link_quality = 0, !.rssi_1 = 0]

\* A CRC mismatch that starts the count of good frames again.
on_crc_error_restarts(d) ==
    [d EXCEPT !.error_count = @ + 1, !.frame_count = 0]

on_crc_error(d) == [d EXCEPT !.error_count = @ + 1]

\* Every type other than RC_CHANNELS_PACKED read as link statistics.
dispatch_else_link(d, frame) ==
    IF frame[3] = RC_CHANNELS_PACKED
      THEN parse_rc_channels(d, frame_payload(frame))
    ELSE parse_link_statistics(d, frame_payload(frame))

dispatch(d, frame) ==
    IF frame[3] = RC_CHANNELS_PACKED
      THEN parse_rc_channels(d, frame_payload(frame))
    ELSE IF frame[3] = LINK_STATISTICS
      THEN parse_link_statistics(d, frame_payload(frame))
    ELSE d

parse_frame(d, frame) ==
    IF Len(frame) < 4 THEN d
    ELSE IF ~frame_crc_ok(frame) THEN on_crc_error(d)
    ELSE dispatch([d EXCEPT !.frame_count = @ + 1], frame)

(***************************************************************************)
(* read_frame on an open port.  sync_loop is the while loop: its result is *)
(* the decoder after the call, the value returned, the number of leading   *)
(* bytes the loop discarded and the frame it removed (<< >> if none).      *)
(***************************************************************************)
\* A discarded byte counted as an error.
discard_byte_counted(d) ==
    [d EXCEPT !.buffer = Tail(@), !.error_count = @ + 1]

discard_byte(d) == [d EXCEPT !.buffer = Tail(@)]

is_address(byte) == byte \in CRSFAddress

\* The loop entered with 3 bytes, and the loop left with 4.
need_more_3(d) == Len(d.buffer) < 3

need_more_5(d) == Len(d.buffer) < 5

need_more(d) == Len(d.buffer) < 4

\* Any declared length taken for a frame's.
length_unchecked(d) == FALSE

length_too_big(d) == d.buffer[2] > CRSF_MAX_PACKET_SIZE

RECURSIVE sync_loop(_, _)

\* An incomplete frame handled like a bad length: discard a byte and go on.
on_incomplete_discards(d, n) == sync_loop(discard_byte(d), n + 1)

on_incomplete(d, n) ==
    [d |-> d, ret |-> FALSE, skipped |-> n, extracted |-> << >>]

\* A frame parsed and the loop gone on to the next one in the same call.
extract_frame_and_go_on(d, n, total_length) ==
    LET frame == slice(d.buffer, 0, total_length)
        rest == slice(d.buffer, total_length, Len(d.buffer))
    IN  sync_loop(parse_frame([d EXCEPT !.buffer = rest], frame), n)

extract_frame(d, n, total_length) ==
    LET frame == slice(d.buffer, 0, total_length)
        rest == slice(d.buffer, total_length, Len(d.buffer))
    IN  [d |-> parse_frame([d EXCEPT !.buffer = rest], frame),
         ret |-> TRUE, skipped |-> n, extracted |-> frame]

sync_loop(d, n) ==
    IF need_more(d)
      THEN [d |-> d, ret |-> FALSE, skipped |-> n, extracted |-> << >>]
    ELSE IF ~is_address(d.buffer[1])
      THEN sync_loop(discard_byte(d), n + 1)
    ELSE IF length_too_big(d)
      THEN sync_loop(discard_byte(d), n + 1)
    ELSE IF Len(d.buffer) < d.buffer[2] + 2
      THEN on_incomplete(d, n)
    ELSE extract_frame(d, n, d.buffer[2] + 2)

read_frame(d, data) == sync_loop([d EXCEPT !.buffer = @ \o data], 0)

(***************************************************************************)
(* The queries.  They assign no field.  int() truncates toward zero; the   *)
(* float quotients are kept exact, a normalized value as the fraction      *)
(* num / den.                                                              *)
(***************************************************************************)
to_int(num, den) ==
    IF num >= 0 THEN num \div den ELSE 0 - ((0 - num) \div den)

\* The span of the normalisation used for the microseconds.
channel_microseconds_819(ch) == to_int((1000 * 819) + ((ch - 172) * 1000), 819)

channel_microseconds(ch) == to_int((1000 * 1639) + ((ch - 172) * 1000), 1639)

get_channels_microseconds(d) ==
    [i \in 1..16 |-> channel_microseconds(d.channels[i])]

get_channels_normalized(d) ==
    [i \in 1..16 |-> [num |-> d.channels[i] - 992, den |-> 819]]


(***************************************************************************)
(* Input streams.  A frame on the wire is                                  *)
(* [address][length][type][payload...][crc], length counting the bytes     *)
(* from type through crc and crc being the CRC8 of [type][payload].        *)
(***************************************************************************)
make_frame(address, frame_type, payload) ==
    <<address, Len(payload) + 2, frame_type>> \o payload
        \o <<calculate_crc(<<frame_type>> \o payload)>>

\* The same frame with the lowest bit of its last byte flipped.
corrupt(frame) ==
    [frame EXCEPT ![Len(frame)] = xor(@, 1)]

\* Channel i (0-based) at bit offset 11*i of a 22-byte little-endian payload:
\* bit k of the payload is bit k % 11 of channel k \div 11.
packed_bit(chs, k) == (chs[(k \div 11) + 1] \div pow2(k % 11)) % 2

pack_channels(chs) ==
    [j \in 1..22 |->
        LET k == 8 * (j - 1)
        IN  packed_bit(chs, k) + (2 * packed_bit(chs, k + 1))
              + (4 * packed_bit(chs, k + 2)) + (8 * packed_bit(chs, k + 3))
              + (16 * packed_bit(chs, k + 4)) + (32 * packed_bit(chs, k + 5))
              + (64 * packed_bit(chs, k + 6)) + (128 * packed_bit(chs, k + 7))]

rc_frame(chs) == make_frame(200, RC_CHANNELS_PACKED, pack_channels(chs))

SampleChannels == [i \in 1..16 |-> IF i = 1 THEN 992 ELSE (i * 127) % 2048]

LinkPayload == <<50, 48, 75, 246, 1, 2, 20, 0, 0, 0>>
OtherLinkPayload == <<90, 91, 99, 5, 0, 3, 10, 7, 8, 9>>

\* Mixed streams: up to MaxSegs of these, one after the other, MaxLen bytes
\* at most.
Segments ==
    { <<85>>,                                     \* not an address
      <<200, 65>>,                                \* declared length 65
      <<200, 0>>,                                 \* declared length 0
      <<238, 1, 7>>,                              \* declared length 1
      <<200, 24, 22, 1>>,                         \* the start of a frame
      make_frame(236, RC_CHANNELS_PACKED, [i \in 1..21 |-> 255]),
      make_frame(200, LINK_STATISTICS, SubSeq(OtherLinkPayload, 1, 9)),
      make_frame(200, LINK_STATISTICS, LinkPayload),
      corrupt(make_frame(200, LINK_STATISTICS, OtherLinkPayload)),
      rc_frame(SampleChannels) }

RECURSIVE concat(_)
concat(segs) ==
    IF segs = << >> THEN << >> ELSE Head(segs) \o concat(Tail(segs))

Streams ==
    { s \in { concat(segs) :
                segs \in UNION { [1..n -> Segments] : n \in 0..MaxSegs } } :
        Len(s) <= MaxLen }

\* Noise: every sequence of up to MaxNoise bytes none of which is an address.
NoiseBytes == {85, 65}

NoiseStreams == UNION { [1..n -> NoiseBytes] : n \in 0..MaxNoise }

\* One frame of every declared length 0..MaxDeclared, the type going round
\* three types with the length, with a right and with a wrong last byte,
\* followed by two bytes of noise.
fill(n) == [i \in 1..n |-> ((i * 37) + 11) % 256]

type_for(n) ==
    IF n % 3 = 0 THEN RC_CHANNELS_PACKED
    ELSE IF n % 3 = 1 THEN LINK_STATISTICS
    ELSE GPS

declared_frame(n) ==
    IF n >= 2 THEN make_frame(200, type_for(n), fill(n - 2))
    ELSE <<200, n>> \o SubSeq(<<7>>, 1, n)

LengthStreams ==
    { f \o <<85, 85>> :
        f \in UNION { { declared_frame(n), corrupt(declared_frame(n)) } :
                        n \in 0..MaxDeclared } }

\* One LINK_STATISTICS frame, its payload cut to 7, 9, 10 or 12 bytes.
LinkPayloads ==
    { SubSeq(<<r, 48, q, s, 1, 2, 20, 0, 0, 0, 33, 44>>, 1, n) :
        r \in {50, 200}, q \in {0, 75, 100, 101, 200, 255},
        s \in {0, 127, 128, 246, 255}, n \in {7, 9, 10, 12} }

LinkStreams == { make_frame(200, LINK_STATISTICS, p) : p \in LinkPayloads }

\* One RC_CHANNELS_PACKED frame packed from 16 known values.
ChannelSets ==
    { [i \in 1..16 |-> IF i = p THEN v ELSE 0] :
        p \in 1..16, v \in {1, 992, 1024, 2047} }
    \cup { [i \in 1..16 |-> v] : v \in {0, 172, 1365, 1811, 2047} }
    \cup { SampleChannels,
           [i \in 1..16 |-> IF i % 2 = 0 THEN 2047 ELSE 682],
           [i \in 1..16 |-> 2047 - (i * 127)] }

ChannelStreams == { rc_frame(chs) : chs \in ChannelSets }

\* One frame of every declared length 2..MaxFlipDeclared and one full
\* RC_CHANNELS_PACKED frame, each with one bit of one payload byte or of the
\* CRC byte flipped.
flip(frame, pos, bit) == [frame EXCEPT ![pos] = xor(@, pow2(bit))]

FlipFrames ==
    { declared_frame(n) : n \in 2..MaxFlipDeclared }
        \cup { rc_frame(SampleChannels) }

FlipStreams ==
    UNION { { flip(f, pos, bit) : pos \in 4..Len(f), bit \in 0..7 } :
              f \in FlipFrames }

\* One valid frame, twice in a row.
TwiceFrames ==
    { make_frame(200, LINK_STATISTICS, LinkPayload),
      make_frame(238, LINK_STATISTICS, OtherLinkPayload),
      make_frame(200, LINK_STATISTICS, SubSeq(OtherLinkPayload, 1, 9)),
      make_frame(200, GPS, fill(15)),
      make_frame(236, RC_CHANNELS_PACKED, [i \in 1..21 |-> 255]),
      rc_frame(SampleChannels),
      rc_frame([i \in 1..16 |-> 2047]),
      rc_frame([i \in 1..16 |-> IF i % 2 = 0 THEN 2047 ELSE 682]) }

TwiceStreams == { f \o f : f \in TwiceFrames }

\* Noise of up to MaxNoise bytes, then one well-formed frame.
ResyncFrames ==
    { make_frame(200, LINK_STATISTICS, LinkPayload),
      make_frame(238, GPS, << >>) }

ResyncStreams == { noise \o f : noise \in NoiseStreams, f \in ResyncFrames }

\* One RC_CHANNELS_PACKED frame for every raw value, the same on all channels.
RawStreams == { rc_frame([i \in 1..16 |-> v]) : v \in 0..2047 }


(***************************************************************************)
(* The state machine.                                                      *)
(***************************************************************************)
Start(inputs) ==
    /\ self = init_self
    /\ stream \in inputs
    /\ sent = 0
    /\ ret = FALSE
    /\ skipped = 0
    /\ extracted = << >>
    /\ split = FALSE

Init == Start(Streams \cup NoiseStreams)

\* One call of read_frame: `k` bytes are waiting on the serial line.
ReadFrame ==
    \E k \in 0..(Len(stream) - sent) :
        \E r \in {read_frame(self, SubSeq(stream, sent + 1, sent + k))} :
            /\ self' = r.d
            /\ sent' = sent + k
            /\ ret' = r.ret
            /\ skipped' = r.skipped
            /\ extracted' = r.extracted
            /\ split' = (split \/ (sent > 0 /\ k > 0))
            /\ UNCHANGED stream

Next == ReadFrame

Spec == Init /\ [][Next]_vars

InitLengths == Start(LengthStreams)
SpecLengths == InitLengths /\ [][Next]_vars

InitLink == Start(LinkStreams)
SpecLink == InitLink /\ [][Next]_vars

InitChannels == Start(ChannelStreams)
SpecChannels == InitChannels /\ [][Next]_vars

InitFlips == Start(FlipStreams)
SpecFlips == InitFlips /\ [][Next]_vars

InitTwice == Start(TwiceStreams)
SpecTwice == InitTwice /\ [][Next]_vars

\* The polling loop goes on calling read_frame and the serial line goes on
\* delivering: a call that would change the state is eventually made.
InitResync == Start(ResyncStreams)
SpecResync == InitResync /\ [][Next]_vars /\ WF_vars(ReadFrame)

InitRaw == Start(RawStreams)
SpecRaw == InitRaw /\ [][Next]_vars


(***************************************************************************)
(* Shorthands for the properties.                                          *)
(***************************************************************************)
\* Every byte of the stream has been delivered and the last call returned
\* False: nothing more can be decoded.
Drained == sent = Len(stream) /\ ret = FALSE

\* The decoder apart from its buffer.
Decoded(d) == [d EXCEPT !.buffer = << >>]

LinkOf(d) ==
    <<d.rssi_1, d.rssi_2, d.link_quality, d.snr, d.active_antenna,
      d.rf_mode, d.tx_power>>

\* A frame with a type byte and a CRC byte, and whether its CRC byte is the
\* CRC8 of [type][payload].
HasCrc(frame) == Len(frame) >= 4

CrcMatches(frame) ==
    frame[Len(frame)] = calculate_crc(SubSeq(frame, 3, Len(frame) - 1))

\* The whole input handed to a fresh decoder in one read, then read_frame
\* called until it returns False.
RECURSIVE drain(_)
drain(r) == IF r.ret THEN drain(read_frame(r.d, << >>)) ELSE r.d

feed_at_once(s) == drain(read_frame(init_self, s))

(***************************************************************************)
(* C1  Chunking invariance: once the whole stream has been delivered, in   *)
(* whatever reads, and read_frame has returned False, the decoder          *)
(* (channels, link statistics, both counters, remaining buffer) is the one *)
(* obtained by delivering the stream in one read and calling read_frame    *)
(* until it returns False.                                                 *)
(***************************************************************************)
C1_ChunkingInvariance == Drained => self = feed_at_once(stream)

C1_Witness ==
    /\ Drained
    /\ split
    /\ self.frame_count = 1
    /\ self.link_quality = 75
    /\ Len(self.buffer) >= 4

(***************************************************************************)
(* C2  A call that extracts a frame whose CRC byte differs from the CRC8   *)
(* of [type][payload] adds one to error_count and leaves frame_count, the  *)
(* 16 channels and the 7 link-statistics fields as they were.              *)
(***************************************************************************)
C2_CrcMismatch ==
    [][(extracted' # << >> /\ HasCrc(extracted') /\ ~CrcMatches(extracted'))
         => /\ self'.error_count = self.error_count + 1
            /\ self'.frame_count = self.frame_count
            /\ self'.channels = self.channels
            /\ LinkOf(self') = LinkOf(self)]_vars

C2_Witness ==
    /\ HasCrc(extracted)
    /\ ~CrcMatches(extracted)
    /\ self.error_count = 1
    /\ self.link_quality = 75
    /\ self.snr = -10

(***************************************************************************)
(* C3  Every frame a call removes from the buffer has a whitelisted        *)
(* address, a declared length of at most 64 and length + 2 bytes.  For a   *)
(* declared length of 2 to 64 the call adds one to exactly one counter:    *)
(* frame_count when the CRC matches, error_count when it does not.  For a  *)
(* declared length of 0 or 1 the frame is removed and neither counter      *)
(* changes.                                                                *)
(***************************************************************************)
OneCounter ==
    \/ self'.frame_count = self.frame_count + 1
         /\ self'.error_count = self.error_count
    \/ self'.frame_count = self.frame_count
         /\ self'.error_count = self.error_count + 1

CountedByCrc(frame) ==
    IF CrcMatches(frame)
      THEN self'.frame_count = self.frame_count + 1
             /\ self'.error_count = self.error_count
      ELSE self'.frame_count = self.frame_count
             /\ self'.error_count = self.error_count + 1

Candidate(frame) ==
    /\ frame[1] \in CRSFAddress
    /\ frame[2] <= 64
    /\ Len(frame) = frame[2] + 2

C3_FrameCounted ==
    [][extracted' # << >>
         => /\ Candidate(extracted')
            /\ IF extracted'[2] >= 2
                 THEN CountedByCrc(extracted')
                 ELSE self'.frame_count = self.frame_count
                        /\ self'.error_count = self.error_count]_vars

\* The claim as stated: exactly one counter, for every declared length 0..64.
C3_Original ==
    [][extracted' # << >>
         => /\ Candidate(extracted')
            /\ OneCounter
            /\ (HasCrc(extracted') => CountedByCrc(extracted'))]_vars

C3_Witness ==
    /\ extracted # << >>
    /\ extracted[2] = 64
    /\ ~CrcMatches(extracted)
    /\ self.error_count = 1
    /\ self.frame_count = 0

(***************************************************************************)
(* C4  link_quality is in [0, 100] in every reachable state.               *)
(***************************************************************************)
C4_LinkQualityInRange == self.link_quality \in 0..100

(***************************************************************************)
(* C5  One well-formed LINK_STATISTICS frame fed to a fresh decoder: with  *)
(* a payload of at least 10 bytes the first seven payload bytes become     *)
(* rssi_1, rssi_2, link_quality, snr (as signed 8-bit), active_antenna,    *)
(* rf_mode, tx_power, so that a payload starting 50, 48, 75, 0xF6, 1, 2,   *)
(* 20 gives link_quality 75 and snr -10; with a shorter payload the link   *)
(* statistics stay as constructed.  Either way the frame is counted.       *)
(***************************************************************************)
StreamPayload == SubSeq(stream, 4, Len(stream) - 1)

Positional(p) ==
    <<p[1], p[2], p[3], IF p[4] > 127 THEN p[4] - 256 ELSE p[4],
      p[5], p[6], p[7]>>

C5_LinkStatistics ==
    Drained =>
        /\ self.frame_count = 1
        /\ self.error_count = 0
        /\ IF Len(StreamPayload) >= 10
             THEN LinkOf(self) = Positional(StreamPayload)
             ELSE LinkOf(self) = <<0, 0, 0, 0, 0, 0, 0>>
        /\ (Len(StreamPayload) >= 10
              /\ SubSeq(StreamPayload, 1, 7) = <<50, 48, 75, 246, 1, 2, 20>>)
             => self.link_quality = 75 /\ self.snr = -10

\* The claim as stated: a payload of exactly the seven bytes.
C5_Original ==
    (Drained /\ Len(StreamPayload) = 7)
        => LinkOf(self) = Positional(StreamPayload)

C5_Witness ==
    /\ Drained
    /\ StreamPayload = <<50, 48, 75, 246, 1, 2, 20, 0, 0, 0>>
    /\ self.link_quality = 75
    /\ self.snr = -10
    /\ self.frame_count = 1

(***************************************************************************)
(* C6  Round trip: 16 values in 0..2047 packed at 11 bits each into a      *)
(* 22-byte payload and framed as C8 18 16 <payload> <crc>, fed to a fresh  *)
(* decoder, come back as the 16 channels, with frame_count 1 and           *)
(* error_count 0.                                                          *)
(***************************************************************************)
C6_RoundTrip ==
    /\ Len(stream) = 26
    /\ SubSeq(stream, 1, 3) = <<200, 24, 22>>
    /\ Drained =>
         /\ self.frame_count = 1
         /\ self.error_count = 0
         /\ \A chs \in ChannelSets :
              stream = rc_frame(chs) => self.channels = chs

C6_Witness ==
    /\ Drained
    /\ split
    /\ stream = rc_frame([i \in 1..16 |-> IF i = 1 THEN 992 ELSE 0])
    /\ self.channels[1] = 992
    /\ self.frame_count = 1

(***************************************************************************)
(* C7  A stream without any address byte: every call returns False after   *)
(* discarding at most as many bytes as have been delivered, and leaves in  *)
(* the buffer the last three bytes delivered (all of them while fewer than *)
(* three have been delivered).  The buffer is not emptied.                 *)
(***************************************************************************)
NoAddress(s) == \A i \in 1..Len(s) : s[i] \notin CRSFAddress

Kept == IF sent < 3 THEN sent ELSE 3

C7_NoiseDrains ==
    NoAddress(stream) =>
        /\ ret = FALSE
        /\ skipped <= sent
        /\ Len(self.buffer) < 4
        /\ self.buffer = SubSeq(stream, sent - Kept + 1, sent)

\* The claim as stated: the buffer ends empty.
C7_Original ==
    (NoAddress(stream) /\ Drained /\ sent > 0) => self.buffer = << >>

C7_Witness ==
    /\ NoAddress(stream)
    /\ Drained
    /\ Len(stream) = 6
    /\ skipped = 3
    /\ Len(self.buffer) = 3

(***************************************************************************)
(* C8  Sync errors are not counted.  A call that extracts no frame,        *)
(* whatever it discards, changes neither counter, no channel and no link   *)
(* statistic; a call that discards bytes and then extracts a frame changes *)
(* them as parsing that frame alone does; and a stream without any address *)
(* byte leaves frame_count = 0 and error_count = 0.                        *)
(***************************************************************************)
C8_SyncErrorsUncounted ==
    /\ [][IF extracted' = << >>
            THEN Decoded(self') = Decoded(self)
            ELSE Decoded(self') = Decoded(parse_frame(self, extracted'))]_vars
    /\ [](NoAddress(stream)
            => self.frame_count = 0 /\ self.error_count = 0)

C8_Witness ==
    /\ Len(stream) = 6
    /\ stream[1] = 200
    /\ stream[2] = 65
    /\ skipped = 2
    /\ extracted = << >>
    /\ self.buffer = <<200, 24, 22, 1>>
    /\ self.frame_count = 0
    /\ self.error_count = 0

(***************************************************************************)
(* C9  No partial consumption: with fewer than 4 bytes buffered, or with a *)
(* whitelisted address and a declared length <= 64 but fewer than          *)
(* length + 2 bytes buffered, a call that reads no new byte returns False  *)
(* and leaves the whole decoder, buffer included, as it was.               *)
(***************************************************************************)
Waiting(d) ==
    \/ Len(d.buffer) < 4
    \/ /\ d.buffer[1] \in CRSFAddress
       /\ d.buffer[2] <= 64
       /\ Len(d.buffer) < d.buffer[2] + 2

C9_NoPartialConsumption ==
    [][(sent' = sent /\ Waiting(self))
         => (ret' = FALSE /\ self' = self)]_vars

C9_Witness ==
    /\ Waiting(self)
    /\ Len(self.buffer) = 13
    /\ self.buffer[2] = 24
    /\ ret = FALSE
    /\ skipped = 0
    /\ extracted = << >>

(***************************************************************************)
(* C10  A CRC-valid frame whose payload is too short for its type          *)
(* (RC_CHANNELS_PACKED under 22 bytes, LINK_STATISTICS under 10) adds one  *)
(* to frame_count and changes neither error_count, nor a channel, nor a    *)
(* link statistic.                                                         *)
(***************************************************************************)
ShortPayload(frame) ==
    /\ HasCrc(frame)
    /\ CrcMatches(frame)
    /\ \/ frame[3] = 22 /\ Len(frame) - 4 < 22
       \/ frame[3] = 20 /\ Len(frame) - 4 < 10

C10_ShortPayload ==
    [][ShortPayload(extracted')
         => /\ self'.frame_count = self.frame_count + 1
            /\ self'.error_count = self.error_count
            /\ self'.channels = self.channels
            /\ LinkOf(self') = LinkOf(self)]_vars

C10_Witness ==
    /\ ShortPayload(extracted)
    /\ extracted[3] = 20
    /\ Len(extracted) = 13
    /\ self.frame_count = 2
    /\ self.link_quality = 75

(***************************************************************************)
(* C11  A call extracts at most one frame: frame_count + error_count grows *)
(* by at most one across a call, and after a call that extracted a frame   *)
(* the buffer is everything that followed that frame (the bytes buffered   *)
(* before the call and the bytes it read, less the bytes it discarded and  *)
(* the frame), so that further complete frames are still buffered.         *)
(***************************************************************************)
C11_OneFramePerCall ==
    [][/\ self'.frame_count + self'.error_count
            <= self.frame_count + self.error_count + 1
       /\ extracted' # << >>
            => self'.buffer
                 = slice(self.buffer \o SubSeq(stream, sent + 1, sent'),
                         skipped' + Len(extracted'),
                         Len(self.buffer) + (sent' - sent))]_vars

C11_Witness ==
    /\ extracted = make_frame(200, LINK_STATISTICS, LinkPayload)
    /\ self.buffer = make_frame(200, LINK_STATISTICS, LinkPayload)
    /\ self.frame_count = 1
    /\ self.error_count = 0
    /\ ret = TRUE

(***************************************************************************)
(* C12  frame_count and error_count never decrease: across every call of   *)
(* read_frame, whatever bytes it reads, each counter is at least what it   *)
(* was.  (The queries get_channels, get_link_statistics, get_statistics    *)
(* and the like assign no field, so they are steps that leave every        *)
(* variable unchanged.)                                                    *)
(***************************************************************************)
C12_CountersMonotone ==
    [][/\ self'.frame_count >= self.frame_count
       /\ self'.error_count >= self.error_count]_vars

C12_Witness ==
    /\ self.frame_count = 1
    /\ self.error_count = 1
    /\ extracted # << >>
    /\ ~CrcMatches(extracted)

(***************************************************************************)
(* C13  Every one of the 16 channel values is in 0..2047 in every          *)
(* reachable state.                                                        *)
(***************************************************************************)
C13_ChannelsInRange == \A i \in 1..16 : self.channels[i] \in 0..2047

C13_Witness ==
    /\ stream = rc_frame([i \in 1..16 |-> 2047])
    /\ self.frame_count = 1
    /\ self.channels = [i \in 1..16 |-> 2047]

(***************************************************************************)
(* C14  A CRC-valid frame whose type is neither RC_CHANNELS_PACKED (0x16)  *)
(* nor LINK_STATISTICS (0x14) adds one to frame_count and changes neither  *)
(* error_count, nor a channel, nor a link statistic.                       *)
(***************************************************************************)
UnknownType(frame) ==
    /\ HasCrc(frame)
    /\ CrcMatches(frame)
    /\ frame[3] \notin {22, 20}

C14_UnknownType ==
    [][UnknownType(extracted')
         => /\ self'.frame_count = self.frame_count + 1
            /\ self'.error_count = self.error_count
            /\ self'.channels = self.channels
            /\ LinkOf(self') = LinkOf(self)]_vars

C14_Witness ==
    /\ UnknownType(extracted)
    /\ extracted[3] = GPS
    /\ Len(extracted) = 19
    /\ self.frame_count = 1
    /\ self.error_count = 0
    /\ LinkOf(self) = <<0, 0, 0, 0, 0, 0, 0>>

(***************************************************************************)
(* C15  read_frame returns True exactly when the call parsed a frame       *)
(* successfully, that is extracted a frame that passed the CRC check and   *)
(* was counted in frame_count; in every other case, a frame dropped for a  *)
(* CRC mismatch included, it returns False.                                *)
(***************************************************************************)
C15_TrueIffParsed ==
    [][(ret' = TRUE) <=> (self'.frame_count = self.frame_count + 1)]_vars

(***************************************************************************)
(* C16  Single-bit error detection: a well-formed frame with one bit of    *)
(* its payload or of its CRC byte flipped, fed to a fresh decoder, is      *)
(* extracted whole and fails the CRC check: error_count becomes 1,         *)
(* frame_count stays 0 and no channel and no link statistic changes.       *)
(***************************************************************************)
C16_SingleBitFlip ==
    /\ self.frame_count = 0
    /\ self.channels = init_self.channels
    /\ LinkOf(self) = LinkOf(init_self)
    /\ extracted # << >> => extracted = stream /\ self.error_count = 1
    /\ Drained => self.error_count = 1 /\ self.buffer = << >>

C16_Witness ==
    /\ stream = flip(declared_frame(13), 6, 3)
    /\ extracted = stream
    /\ self.error_count = 1
    /\ self.frame_count = 0

(***************************************************************************)
(* C17  The same valid frame decoded twice in a row: the second decode     *)
(* adds one more to frame_count, leaves error_count as it was and leaves   *)
(* the channels and the link statistics as the first decode set them; a    *)
(* fresh decoder fed the frame twice ends with frame_count 2, error_count  *)
(* 0 and the channels and link statistics of one decode.                   *)
(***************************************************************************)
FirstHalf == SubSeq(stream, 1, Len(stream) \div 2)

C17_DecodeTwice ==
    /\ [][(extracted' # << >> /\ extracted' = extracted)
            => /\ self'.frame_count = self.frame_count + 1
               /\ self'.error_count = self.error_count
               /\ self'.channels = self.channels
               /\ LinkOf(self') = LinkOf(self)]_vars
    /\ [](Drained
            => self = [parse_frame(init_self, FirstHalf)
                         EXCEPT !.frame_count = 2])

C17_Witness ==
    /\ stream = rc_frame(SampleChannels) \o rc_frame(SampleChannels)
    /\ extracted = rc_frame(SampleChannels)
    /\ self.frame_count = 2
    /\ self.error_count = 0
    /\ self.channels = SampleChannels

(***************************************************************************)
(* C18  rssi_1 is a signed 8-bit dBm value: once a LINK_STATISTICS frame   *)
(* has been decoded, rssi_1 is in -120..0.                                 *)
(***************************************************************************)
C18_RssiInRange ==
    (self.frame_count > 0 /\ Len(StreamPayload) >= 10)
        => self.rssi_1 \in -120..0

(***************************************************************************)
(* C19  Resynchronisation: the input is bytes none of which is an address, *)
(* followed by one well-formed frame.  The buffer is always the tail of    *)
(* what has been delivered (bytes leave it from the front only), no byte   *)
(* of the frame is discarded before the frame is decoded, the frame        *)
(* extracted is the whole frame, no error is ever counted, and eventually  *)
(* the frame is decoded: frame_count = 1 and error_count = 0.              *)
(***************************************************************************)
NoiseLen(s) ==
    CHOOSE n \in 0..(Len(s) - 1) :
        s[n + 1] \in CRSFAddress /\ \A j \in 1..n : s[j] \notin CRSFAddress

C19_Resync ==
    /\ [](self.buffer = SubSeq(stream, sent - Len(self.buffer) + 1, sent))
    /\ [](self.frame_count = 0
            => sent - Len(self.buffer) <= NoiseLen(stream))
    /\ [](extracted # << >>
            => extracted = SubSeq(stream, NoiseLen(stream) + 1, Len(stream)))
    /\ [](self.error_count = 0 /\ self.frame_count <= 1)
    /\ <>(self.frame_count = 1 /\ self.error_count = 0)

C19_Witness ==
    /\ Len(stream) = 20
    /\ NoiseLen(stream) = 6
    /\ skipped = 6
    /\ extracted = make_frame(200, LINK_STATISTICS, LinkPayload)
    /\ self.frame_count = 1
    /\ self.error_count = 0
    /\ self.buffer = << >>

(***************************************************************************)
(* C20  Bounded garbage window: after a call that extracted no frame the   *)
(* buffer holds fewer than CRSF_MAX_PACKET_SIZE + 2 = 66 bytes: fewer than *)
(* 4 bytes, or the incomplete start of a frame with a whitelisted address  *)
(* and a declared length of at most 64.                                    *)
(***************************************************************************)
C20_BoundedWindow ==
    extracted = << >>
        => /\ Len(self.buffer) < CRSF_MAX_PACKET_SIZE + 2
           /\ Waiting(self)

C20_Witness ==
    /\ extracted = << >>
    /\ ret = FALSE
    /\ sent = 65
    /\ Len(self.buffer) = 65
    /\ self.buffer[2] = 64

(***************************************************************************)
(* C21  A leading byte is accepted as a frame address if and only if it is *)
(* in the whitelist, and the whitelist is exactly 13 distinct byte values, *)
(* all between 0x00 and 0xEE; with at least 4 bytes buffered any other     *)
(* leading byte is discarded.                                              *)
(***************************************************************************)
\* What a call starts from: the bytes buffered and the bytes it reads.
Pending == self.buffer \o SubSeq(stream, sent + 1, sent')

\* With 4 bytes or more to look at, the call discards the leading byte when
\* it is not whitelisted, and keeps a whitelisted one that declares a length
\* of at most 64 as the start of a frame.
LeadingByteRule ==
    Len(Pending) >= 4
        => /\ Pending[1] \notin CRSFAddress => skipped' >= 1
           /\ (Pending[1] \in CRSFAddress /\ Pending[2] <= 64)
                => skipped' = 0
           /\ skipped' = 0 => Pending[1] \in CRSFAddress

C21_Whitelist ==
    /\ [](Cardinality(CRSFAddress) = 13)
    /\ [](CRSFAddress \subseteq 0..238)
    /\ [][LeadingByteRule]_vars

(***************************************************************************)
(* C22  For every channel set the decoder reaches, every microsecond value *)
(* is in 800..2200 and every normalized value is in [-1.5, 1.5]; raw 172   *)
(* gives 1000 microseconds, raw 1811 gives 2000 and raw 992 normalizes to  *)
(* 0.                                                                      *)
(***************************************************************************)
C22_ChannelRanges ==
    \A i \in 1..16 :
        LET us == get_channels_microseconds(self)[i]
            norm == get_channels_normalized(self)[i]
        IN  /\ us \in 800..2200
            /\ 0 - (3 * norm.den) <= 2 * norm.num
            /\ 2 * norm.num <= 3 * norm.den
            /\ self.channels[i] = 172 => us = 1000
            /\ self.channels[i] = 1811 => us = 2000
            /\ self.channels[i] = 992 => norm.num = 0

C22_Witness ==
    /\ stream = rc_frame([i \in 1..16 |-> 1811])
    /\ self.frame_count = 1
    /\ get_channels_microseconds(self) = [i \in 1..16 |-> 2000]
    /\ get_channels_normalized(self)[16] = [num |-> 819, den |-> 819]

============================================================================
